---- MODULE Spec2Model ----
(***************************************************************************)
(* A model of stl-cleaner (src/src/stl-cleaner.py): the geometry kernel,   *)
(* the manifold repair, the binary codec and the ASCII codec with its line *)
(* cursor, and clean_stl_file which runs one of the two codecs.            *)
(*                                                                         *)
(* Numbers.  Coordinates are integers, and so is the threshold of --min-pos *)
(* (1 or 0 on every axis; the positive default 0.01 acts on coordinates as *)
(* the threshold 1 does on coordinates a hundred times larger).  On such   *)
(* small integers every float operation of the program except the          *)
(* normalisation is exact.  A normalised vector v / |v| is represented by  *)
(* the primitive integer vector of the same direction, v / gcd(v): two     *)
(* normalised integer vectors are equal exactly when their primitive       *)
(* vectors are, and a dot product with the normalised vector has the sign  *)
(* of the dot product with the primitive one.                              *)
(*                                                                         *)
(* Text.  A line is a sequence of one-character strings, so that slicing,  *)
(* prefix tests and the regular expressions of the reader are computed on  *)
(* the characters, as the program computes them.                           *)
(***************************************************************************)
EXTENDS Integers, Sequences, FiniteSets, TLC

VARIABLES
    pc,                   \* position of control in clean_stl_file and the codec
    input,                \* the input file
    lines,                \* global lines: the normalised lines of an ASCII input
    line_index,           \* global line_index: the line cursor (0-based)
    force_repositioning,  \* option --force-repos
    new_min_pos,          \* option --min-pos
    ignore_endsolid_name, \* option --ignore-endsolid-name
    solid_name,           \* the name captured from the solid line
    endsolid_name,        \* the name captured from the endsolid line
    total_facet_count,    \* the loop bound of the ASCII reader
    vertices,             \* the vertices of the facet being read (ASCII)
    min_vertex,           \* the running minimum per axis
    facets,               \* the facets read so far, then the repaired facets
    warning_count,        \* global warning_count
    error_count,          \* global error_count
    error_message,        \* the message of the STLCleanerException raised
    raised,               \* the exception that ended the run, or "none"
    exit_code,            \* what clean_stl_file returned, NoReturn before
    out_opened,           \* whether the output file was opened for writing
    out_file,             \* what was written to the output file
    arg,                  \* the argument of a pure function under check
    res                   \* its result

vars == << pc, input, lines, line_index, force_repositioning, new_min_pos,
           ignore_endsolid_name, solid_name, endsolid_name, total_facet_count,
           vertices, min_vertex, facets, warning_count, error_count,
           error_message, raised, exit_code, out_opened, out_file, arg, res >>

-----------------------------------------------------------------------------
(* Bounds and program constants *)

\* the largest number of facets of an input file
MaxFacets == 1
\* the largest number of facets of a mesh handed to make_model_manifold alone
MaxMeshFacets == 3

SUCCESS_CODE == 0
ERROR_CODE == 1
indent_spaces == 1
\* float("inf"): above every coordinate of the model
Infinity == 1000
\* exit_code before clean_stl_file has returned
NoReturn == -1

\* the vertex positions the inputs are drawn from
Points == { <<0, 0, 0>>, <<2, 0, 0>>, <<0, 2, 0>>, <<-1, 1, 2>> }
\* the normals ensure_counterclockwise is tried with
Normals == { <<x, y, z>> : x \in -1..1, y \in -1..1, z \in -1..1 }

-----------------------------------------------------------------------------
(* GEOMETRY FUNCTIONS *)

Abs(x) == IF x < 0 THEN -x ELSE x

RECURSIVE Gcd(_, _)
Gcd(a, b) == IF b = 0 THEN a ELSE Gcd(b, a % b)

dot_product(v1, v2) == v1[1] * v2[1] + v1[2] * v2[2] + v1[3] * v2[3]

cross_product(v1, v2) ==
    << v1[2] * v2[3] - v1[3] * v2[2],
       v1[3] * v2[1] - v1[1] * v2[3],
       v1[1] * v2[2] - v1[2] * v2[1] >>

\* vector_magnitude squared: the magnitude is 0 exactly when this is 0
MagnitudeSq(v) == v[1] * v[1] + v[2] * v[2] + v[3] * v[3]

\* v / |v|, represented by the primitive vector of v's direction
normalize_vector(v) ==
    IF MagnitudeSq(v) = 0
    THEN <<0, 0, 0>>
    ELSE LET g == Gcd(Gcd(Abs(v[1]), Abs(v[2])), Abs(v[3]))
         IN  << v[1] \div g, v[2] \div g, v[3] \div g >>

Sub(a, b) == << a[1] - b[1], a[2] - b[2], a[3] - b[3] >>

recalculate_normal(vertex1, vertex2, vertex3) ==
    LET edge1 == Sub(vertex2, vertex1)
        edge2 == Sub(vertex3, vertex1)
    IN  normalize_vector(cross_product(edge1, edge2))

\* ensure_counterclockwise with the comparison <= 0 in place of < 0
ensure_counterclockwise_le(vertex1, vertex2, vertex3, normal) ==
    LET edge1 == Sub(vertex2, vertex1)
        edge2 == Sub(vertex3, vertex1)
        calculated_normal == cross_product(edge1, edge2)
    IN  IF dot_product(calculated_normal, normal) <= 0
        THEN << vertex1, vertex3, vertex2 >>
        ELSE << vertex1, vertex2, vertex3 >>

\* ensure_counterclockwise with the comparison inverted
ensure_counterclockwise_inv(vertex1, vertex2, vertex3, normal) ==
    LET edge1 == Sub(vertex2, vertex1)
        edge2 == Sub(vertex3, vertex1)
        calculated_normal == cross_product(edge1, edge2)
    IN  IF dot_product(calculated_normal, normal) > 0
        THEN << vertex1, vertex3, vertex2 >>
        ELSE << vertex1, vertex2, vertex3 >>

ensure_counterclockwise(vertex1, vertex2, vertex3, normal) ==
    LET edge1 == Sub(vertex2, vertex1)
        edge2 == Sub(vertex3, vertex1)
        calculated_normal == cross_product(edge1, edge2)
    IN  IF dot_product(calculated_normal, normal) < 0
        THEN << vertex1, vertex3, vertex2 >>
        ELSE << vertex1, vertex2, vertex3 >>

is_counterclockwise(vertex1, vertex2, vertex3, normal) ==
    LET edge1 == Sub(vertex2, vertex1)
        edge2 == Sub(vertex3, vertex1)
        calculated_normal == cross_product(edge1, edge2)
    IN  dot_product(calculated_normal, normal) > 0

-----------------------------------------------------------------------------
(* MANIFOLD REPAIR.  A facet is <<normal, vertex1, vertex2, vertex3>>. *)

\* Python's order on tuples of numbers
TupleLess(a, b) ==
    \/ a[1] < b[1]
    \/ a[1] = b[1] /\ a[2] < b[2]
    \/ a[1] = b[1] /\ a[2] = b[2] /\ a[3] < b[3]

\* tuple(sorted((a, b)))
SortedPair(a, b) == IF TupleLess(b, a) THEN << b, a >> ELSE << a, b >>

FacetEdges(facet) ==
    << SortedPair(facet[2], facet[3]),
       SortedPair(facet[3], facet[4]),
       SortedPair(facet[4], facet[2]) >>

\* every edge of every facet, in the order the loops of step 1 visit them
EdgeVisits(fs) ==
    [ k \in 1..(3 * Len(fs)) |->
        FacetEdges(fs[((k - 1) \div 3) + 1])[((k - 1) % 3) + 1] ]

\* the elements of sequence s at the positions in set I, in order
Pick(s, I) ==
    [ n \in 1..Cardinality(I) |->
        s[CHOOSE k \in I : Cardinality({ m \in I : m < k }) = n - 1] ]

\* the keys of a dict filled in the order of s: first occurrences, in order
DictKeys(s) ==
    Pick(s, { k \in 1..Len(s) : \A m \in 1..(k - 1) : s[m] # s[k] })

\* len(edge_to_facets[edge]), and edge_usage[edge]
EdgeUsage(fs, edge) ==
    Cardinality({ k \in 1..(3 * Len(fs)) : EdgeVisits(fs)[k] = edge })

\* step 2 with the test len(associated_facets) == 2
OpenEdgesTwo(fs) ==
    LET keys == DictKeys(EdgeVisits(fs))
    IN  Pick(keys, { k \in 1..Len(keys) : EdgeUsage(fs, keys[k]) = 2 })

\* step 2: the edges with one associated facet, in the dict's order
OpenEdges(fs) ==
    LET keys == DictKeys(EdgeVisits(fs))
    IN  Pick(keys, { k \in 1..Len(keys) : EdgeUsage(fs, keys[k]) = 1 })

\* step 3: one new facet for every open edge that has a partner
FixedFacets(fs) ==
    LET open_edges == OpenEdges(fs)
        Partners(a) ==
            { b \in 1..Len(open_edges) :
                /\ open_edges[a][2] \in { open_edges[b][1], open_edges[b][2] }
                /\ open_edges[a] # open_edges[b] }
        NewFacet(a) ==
            LET v1 == open_edges[a][1]
                v2 == open_edges[a][2]
                other_edge ==
                    open_edges[CHOOSE b \in Partners(a) :
                                   \A c \in Partners(a) : b <= c]
                v3 == IF other_edge[2] = v2 THEN other_edge[1] ELSE other_edge[2]
            IN  << recalculate_normal(v1, v2, v3), v1, v2, v3 >>
        found == { a \in 1..Len(open_edges) : Partners(a) # {} }
    IN  Pick([ a \in 1..Len(open_edges) |->
                 IF a \in found THEN NewFacet(a) ELSE << >> ], found)

RECURSIVE SetToSeq(_)
\* the elements of a set in one order; Python does not specify the order in
\* which a set is iterated, and nothing below reads it
SetToSeq(S) ==
    IF S = {} THEN << >>
    ELSE LET x == CHOOSE y \in S : TRUE IN << x >> \o SetToSeq(S \ { x })

Range(s) == { s[k] : k \in 1..Len(s) }

make_model_manifold(fs) ==
    LET fixed_facets == FixedFacets(fs)
        unique_facets == Range(fs \o fixed_facets)
    IN  SetToSeq(unique_facets)

is_model_manifold(fs) ==
    LET edges == DictKeys(EdgeVisits(fs))
        non_manifold_edges ==
            { k \in 1..Len(edges) : EdgeUsage(fs, edges[k]) # 2 }
    IN  Cardinality(non_manifold_edges) = 0

-----------------------------------------------------------------------------
(* The state of a run that has not started, and of no run at all *)

NoFile == [ kind |-> "none" ]

NoRun ==
    /\ lines = << >>
    /\ line_index = 0
    /\ solid_name = << >>
    /\ endsolid_name = << >>
    /\ total_facet_count = 0
    /\ vertices = << >>
    /\ min_vertex = << Infinity, Infinity, Infinity >>
    /\ facets = << >>
    /\ warning_count = 0
    /\ error_count = 0
    /\ error_message = << >>
    /\ raised = "none"
    /\ exit_code = NoReturn
    /\ out_opened = FALSE
    /\ out_file = << >>

DefaultOptions ==
    /\ force_repositioning = FALSE
    /\ new_min_pos = << 1, 1, 1 >>
    /\ ignore_endsolid_name = FALSE

runVars == << input, lines, line_index, force_repositioning, new_min_pos,
              ignore_endsolid_name, solid_name, endsolid_name,
              total_facet_count, vertices, min_vertex, facets, warning_count,
              error_count, error_message, raised, exit_code, out_opened,
              out_file >>

-----------------------------------------------------------------------------
(* ensure_counterclockwise, applied to a triple and then to its own result *)

InitGeom ==
    /\ pc = "ecc_call"
    /\ arg \in [ v : Points \X Points \X Points, normal : Normals ]
    /\ res = << >>
    /\ input = NoFile
    /\ DefaultOptions
    /\ NoRun

EnsureOnce ==
    /\ pc = "ecc_call"
    /\ res' = << ensure_counterclockwise(arg.v[1], arg.v[2], arg.v[3], arg.normal) >>
    /\ pc' = "ecc_once"
    /\ UNCHANGED << arg, runVars >>

EnsureAgain ==
    /\ pc = "ecc_once"
    /\ res' = Append(res, ensure_counterclockwise(res[1][1], res[1][2], res[1][3],
                                                  arg.normal))
    /\ pc' = "ecc_twice"
    /\ UNCHANGED << arg, runVars >>

NextGeom == EnsureOnce \/ EnsureAgain

SpecGeom == InitGeom /\ [][NextGeom]_vars

-----------------------------------------------------------------------------
(* make_model_manifold on a mesh, and is_model_manifold on its result *)

\* the facets over Points whose three vertices differ, normals recomputed as
\* both codecs do before they hand the facets over
Triangles ==
    { << recalculate_normal(a, b, c), a, b, c >> :
        << a, b, c >> \in { t \in Points \X Points \X Points :
                              t[1] # t[2] /\ t[2] # t[3] /\ t[1] # t[3] } }

Meshes == UNION { [ 1..n -> Triangles ] : n \in 0..MaxMeshFacets }

\* the closed meshes of four facets: the four faces of the tetrahedron on
\* Points, each with its corners in any order, the faces in any order
Tetrahedra ==
    { m \in [ 1..Cardinality(Points) -> Triangles ] :
        Cardinality({ { m[k][2], m[k][3], m[k][4] } : k \in 1..Cardinality(Points) })
            = Cardinality(Points) }

\* the facets with a corner repeated, and the meshes of two facets with them
FoldedTriangles ==
    { << recalculate_normal(t[1], t[2], t[3]), t[1], t[2], t[3] >> :
        t \in { u \in Points \X Points \X Points :
                  u[1] = u[2] \/ u[2] = u[3] \/ u[1] = u[3] } }

FoldedMeshes ==
    { << f, g >> : f \in FoldedTriangles, g \in FoldedTriangles \cup Triangles }

RepairInputs == Meshes \cup Tetrahedra \cup FoldedMeshes

InitRepair ==
    /\ pc = "mmm_call"
    /\ arg \in RepairInputs
    /\ res = << >>
    /\ input = NoFile
    /\ DefaultOptions
    /\ NoRun

Repair ==
    /\ pc = "mmm_call"
    /\ res' = [ facets |-> make_model_manifold(arg) ]
    /\ pc' = "mmm_done"
    /\ UNCHANGED << arg, runVars >>

ManifoldCheck ==
    /\ pc = "mmm_done"
    /\ res' = [ facets |-> res.facets,
                is_manifold |-> is_model_manifold(res.facets) ]
    /\ pc' = "mmm_checked"
    /\ UNCHANGED << arg, runVars >>

NextRepair == Repair \/ ManifoldCheck

SpecRepair == InitRepair /\ [][NextRepair]_vars

-----------------------------------------------------------------------------
(* Claims about the pure functions *)

\* C7: ensure_counterclockwise is idempotent: applied with the same normal to
\* the triple it returned, it returns that triple unchanged.
C7_EnsureIdempotent ==
    pc = "ecc_twice" => res[2] = res[1]

\* a triple that was swapped by the first application and left by the second
C7_Witness ==
    /\ pc = "ecc_twice"
    /\ res[1] # arg.v
    /\ res[2] = res[1]

\* the edges of a mesh, as a set
EdgeSet(fs) == Range(EdgeVisits(fs))

\* the mesh is closed except for one missing triangle: exactly three edges are
\* used once, they are the three sides of one triangle, and every other edge
\* is used twice
OneMissingTriangle(fs) ==
    LET open == { e \in EdgeSet(fs) : EdgeUsage(fs, e) = 1 }
    IN  /\ \A e \in EdgeSet(fs) : EdgeUsage(fs, e) \in { 1, 2 }
        /\ Cardinality(open) = 3
        /\ \E a, b, c \in Points :
              /\ a # b /\ b # c /\ a # c
              /\ open = { SortedPair(a, b), SortedPair(b, c), SortedPair(a, c) }

\* C3: the repair of a mesh that is closed except for one missing triangle
\* is reported manifold by is_model_manifold.
C3_RepairClosesOneHole ==
    (pc = "mmm_checked" /\ OneMissingTriangle(arg)) => res.is_manifold

\* the facets of the mesh that have the edge as one of their sides
FacetsOnEdge(fs, edge) ==
    { k \in 1..Len(fs) : edge \in Range(FacetEdges(fs[k])) }

\* the mesh is closed and holds no facet twice: every edge is a side of
\* exactly two facets, and no two facets are the same normal and corners
ClosedMesh(fs) ==
    /\ \A e \in EdgeSet(fs) : Cardinality(FacetsOnEdge(fs, e)) = 2
    /\ \A j, k \in 1..Len(fs) : j # k => fs[j] # fs[k]

\* C12: make_model_manifold leaves a closed mesh alone: no facet is
\* synthesized, and the facets returned are, as a set, the facets given
\* (same normals, same order of corners), none added and none removed.
C12_ClosedMeshUnchanged ==
    (pc \in { "mmm_done", "mmm_checked" } /\ ClosedMesh(arg)) =>
        /\ FixedFacets(arg) = << >>
        /\ Range(res.facets) = Range(arg)
        /\ Len(res.facets) = Len(arg)

\* a tetrahedron that has been through the repair
C12_Witness ==
    /\ pc = "mmm_done"
    /\ ClosedMesh(arg)
    /\ Len(arg) = Cardinality(Points)
    /\ Len(res.facets) = Cardinality(Points)

-----------------------------------------------------------------------------
(* STL FUNCTIONS *)

\* A binary file is its 80-byte header, the count field and the 50-byte
\* records; size is its length in bytes.  A text file is its raw lines.
\* The four bytes at offset 80 of a text file are characters: read as a
\* count they are far above what the file's size allows (and a file shorter
\* than 84 bytes gives struct.error), so a text file is never taken as binary.
is_binary_stl(file) ==
    IF file.kind = "text"
    THEN FALSE
    ELSE 80 + 4 + 50 * file.triangle_count = file.size

-----------------------------------------------------------------------------
(* VALIDATION FUNCTIONS: what both codecs share *)

Min(a, b) == IF a < b THEN a ELSE b

\* RaiseError with the exception escaping clean_stl_file: no exit code
RaiseErrorUncaught(message) ==
    /\ error_count' = error_count + 1
    /\ error_message' = message
    /\ raised' = "STLCleanerException"
    /\ exit_code' = exit_code
    /\ pc' = "crashed"

\* handle_error_with_file_pos / handle_error_with_line_index with type ERROR:
\* the error is counted and STLCleanerException is raised; clean_stl_file
\* catches it and returns ERROR_CODE
RaiseError(message) ==
    /\ error_count' = error_count + 1
    /\ error_message' = message
    /\ raised' = "STLCleanerException"
    /\ exit_code' = ERROR_CODE
    /\ pc' = "returned"

\* an exception clean_stl_file does not catch leaves it without a return
Uncaught(exception) ==
    /\ raised' = exception
    /\ pc' = "crashed"
    /\ UNCHANGED << error_count, error_message, exit_code >>

NoError == UNCHANGED << error_count, error_message, raised, exit_code >>

\* the end of clean_stl_file once the codec has returned
Return ==
    /\ pc' = "returned"
    /\ IF error_count > 0
       THEN /\ raised' = "STLCleanerException"
            /\ exit_code' = ERROR_CODE
            /\ error_message' = [ where |-> "none", at |-> 0,
                                  expected |-> "Validation failed", got |-> << >> ]
       ELSE /\ exit_code' = SUCCESS_CODE
            /\ UNCHANGED << raised, error_message >>
    /\ UNCHANGED error_count

\* the offset added to every vertex at write time
AdaptVertex(min_v) ==
    [ i \in 1..3 |->
        IF force_repositioning \/ min_v[i] < new_min_pos[i]
        THEN (-min_v[i]) + new_min_pos[i]
        ELSE 0 ]

\* a facet as it is written: its vertices moved by adapt_vertex, then
\* ordered by ensure_counterclockwise against its normal
WrittenFacet(facet, adapt_vertex) ==
    LET moved == [ j \in 1..3 |->
                     [ i \in 1..3 |-> facet[1 + j][i] + adapt_vertex[i] ] ]
        fixed_vertices ==
            ensure_counterclockwise(moved[1], moved[2], moved[3], facet[1])
    IN  << facet[1], fixed_vertices[1], fixed_vertices[2], fixed_vertices[3] >>

optionVars == << force_repositioning, new_min_pos, ignore_endsolid_name >>
asciiVars == << lines, line_index, solid_name, endsolid_name,
                total_facet_count, vertices >>
outVars == << out_opened, out_file >>
pureVars == << arg, res >>

-----------------------------------------------------------------------------
(* clean_binary_stl_file *)

BinTriangles ==
    [ normal : { << 0, 0, 1 >> }, vertex1 : Points, vertex2 : Points,
      vertex3 : Points, attr_byte_count : { 0, 5 } ]

BinFile(ts) ==
    [ kind |-> "binary", header |-> "header", triangle_count |-> Len(ts),
      triangles |-> ts, size |-> 80 + 4 + 50 * Len(ts) ]

\* the triangles after the first one of a file: a facet and its neighbour
\* across the edge (2,0,0)-(0,2,0)
FurtherTriangles ==
    { << << 0, 0, 0 >>, << 2, 0, 0 >>, << 0, 2, 0 >> >>,
      << << 0, 2, 0 >>, << 2, 0, 0 >>, << -1, 1, 2 >> >> }

FurtherBinTriangles ==
    { [ normal |-> << 0, 0, 1 >>, vertex1 |-> t[1], vertex2 |-> t[2],
        vertex3 |-> t[3], attr_byte_count |-> a ] :
        t \in FurtherTriangles, a \in { 0, 5 } }

\* the lists of at most n elements: any first element, further ones after it
RECURSIVE ListsUpTo(_, _, _)
ListsUpTo(n, first, further) ==
    IF n = 0 THEN { << >> }
    ELSE IF n = 1 THEN { << >> } \cup { << t >> : t \in first }
    ELSE LET shorter == ListsUpTo(n - 1, first, further)
         IN  shorter \cup { Append(ts, t) :
                               ts \in { l \in shorter : Len(l) = n - 1 },
                               t \in further }

BinaryFiles ==
    { BinFile(ts) : ts \in ListsUpTo(MaxFacets, BinTriangles, FurtherBinTriangles) }

\* the running minimum as the loops of lines 283-288 compute it: for axis j
\* only coordinate j of the j-th vertex is compared
TrackMinBinary(min_v, vertex1, vertex2, vertex3) ==
    LET vs == << vertex1, vertex2, vertex3 >>
    IN  [ j \in 1..3 |-> Min(min_v[j], vs[j][j]) ]

\* pos = 84 + i * 50 at line 294, for the triangle with index k: the loop of
\* line 286 has reused the name i and left it at its last value
FilePos(k) ==
    LET i == 2
    IN  84 + i * 50

IsNegative(v) == v[1] < 0 \/ v[2] < 0 \/ v[3] < 0

\* one iteration of the loop over the triangles
BinReadTriangle ==
    /\ pc = "bin_read"
    /\ Len(facets) < input.triangle_count
    /\ LET k == Len(facets)
           t == input.triangles[k + 1]
           normal == recalculate_normal(t.vertex1, t.vertex2, t.vertex3)
           pos == FilePos(k)
           negative == IsNegative(t.vertex1) \/ IsNegative(t.vertex2)
                          \/ IsNegative(t.vertex3)
           clockwise == ~is_counterclockwise(t.vertex1, t.vertex2, t.vertex3, normal)
       IN  /\ min_vertex' = TrackMinBinary(min_vertex, t.vertex1, t.vertex2, t.vertex3)
           /\ facets' = Append(facets, << normal, t.vertex1, t.vertex2, t.vertex3 >>)
           /\ warning_count' = warning_count + (IF negative THEN 1 ELSE 0)
                                             + (IF clockwise THEN 1 ELSE 0)
           /\ IF t.attr_byte_count # 0
              THEN RaiseError([ where |-> "position", at |-> pos,
                                expected |-> "Attribute byte count should be '0', but got",
                                got |-> t.attr_byte_count ])
              ELSE pc' = "bin_read" /\ NoError
    /\ UNCHANGED << input, optionVars, asciiVars, outVars, pureVars >>

\* lines 314-338: the output file written for the repaired facets
BinOutput(repaired, adapt_vertex) ==
    [ kind |-> "binary", header |-> input.header,
      triangle_count |-> input.triangle_count,
      triangles |->
          [ k \in 1..Len(repaired) |->
              [ normal |-> repaired[k][1],
                vertex1 |-> WrittenFacet(repaired[k], adapt_vertex)[2],
                vertex2 |-> WrittenFacet(repaired[k], adapt_vertex)[3],
                vertex3 |-> WrittenFacet(repaired[k], adapt_vertex)[4],
                attr_byte_count |-> 0 ] ],
      size |-> 80 + 4 + 50 * Len(repaired) ]

\* after the loop: the repair, the output file, and the return
BinWrite ==
    /\ pc = "bin_read"
    /\ Len(facets) = input.triangle_count
    /\ facets' = make_model_manifold(facets)
    /\ out_opened' = TRUE
    /\ out_file' = BinOutput(facets', AdaptVertex(min_vertex))
    /\ Return
    /\ UNCHANGED << input, optionVars, asciiVars, min_vertex, warning_count,
                    pureVars >>

-----------------------------------------------------------------------------
(* Text: a line is a sequence of characters *)

K_solid == << "s", "o", "l", "i", "d" >>
K_endsolid == << "e", "n", "d", "s", "o", "l", "i", "d" >>
K_facet == << "f", "a", "c", "e", "t" >>
K_normal == << "n", "o", "r", "m", "a", "l" >>
K_outer_loop == << "o", "u", "t", "e", "r", " ", "l", "o", "o", "p" >>
K_vertex == << "v", "e", "r", "t", "e", "x" >>
K_endloop == << "e", "n", "d", "l", "o", "o", "p" >>
K_endfacet == << "e", "n", "d", "f", "a", "c", "e", "t" >>
K_model == << "m", "o", "d", "e", "l" >>
K_bar == << " ", "|", " " >>
SP == << " " >>

Digits == << "0", "1", "2", "3", "4", "5", "6", "7", "8", "9" >>
IsDigit(c) == \E d \in 1..10 : Digits[d] = c
DigitValue(c) == (CHOOSE d \in 1..10 : Digits[d] = c) - 1

\* line.startswith(prefix)
StartsWith(line, prefix) ==
    /\ Len(line) >= Len(prefix)
    /\ SubSeq(line, 1, Len(prefix)) = prefix

\* line[n:]
Slice(line, n) == SubSeq(line, n + 1, Len(line))

RECURSIVE LStrip(_)
\* s.lstrip()
LStrip(s) ==
    IF s # << >> /\ Head(s) = " " THEN LStrip(Tail(s)) ELSE s

RECURSIVE RStrip(_)
RStrip(s) ==
    IF s # << >> /\ s[Len(s)] = " " THEN RStrip(SubSeq(s, 1, Len(s) - 1)) ELSE s

\* s.strip()
Strip(s) == RStrip(LStrip(s))

RECURSIVE Collapse(_)
\* re.sub(r'\s+', ' ', s)
Collapse(s) ==
    IF Len(s) < 2 THEN s
    ELSE IF s[1] = " " /\ s[2] = " " THEN Collapse(Tail(s))
    ELSE << s[1] >> \o Collapse(Tail(s))

\* line 355: the form in which every line of the file is kept
NormalizeLine(raw) == Collapse(Strip(raw))

RECURSIVE Split(_)
\* line.split(), for a normalised line
Split(line) ==
    IF line = << >> THEN << >>
    ELSE LET sp == { k \in 1..Len(line) : line[k] = " " }
         IN  IF sp = {} THEN << line >>
             ELSE LET k == CHOOSE x \in sp : \A y \in sp : x <= y
                  IN  << SubSeq(line, 1, k - 1) >> \o Split(Slice(line, k))

RECURSIVE SkipDigits(_, _)
\* the position after the digits of tok that start at position k
SkipDigits(tok, k) ==
    IF k <= Len(tok) /\ IsDigit(tok[k]) THEN SkipDigits(tok, k + 1) ELSE k

\* the positions at which the parts of -?\d*(\.\d+)?([Ee][+-]?\d+)? end in
\* tok: after the sign, the digits, the fraction and the exponent
NumberParts(tok) ==
    LET s0 == IF tok # << >> /\ tok[1] = "-" THEN 2 ELSE 1
        s1 == SkipDigits(tok, s0)
        s2 == IF s1 + 1 <= Len(tok) /\ tok[s1] = "." /\ IsDigit(tok[s1 + 1])
              THEN SkipDigits(tok, s1 + 1) ELSE s1
        e0 == IF s2 + 1 <= Len(tok) /\ tok[s2 + 1] \in { "+", "-" }
              THEN s2 + 2 ELSE s2 + 1
        s3 == IF s2 <= Len(tok) /\ tok[s2] \in { "e", "E" }
                 /\ e0 <= Len(tok) /\ IsDigit(tok[e0])
              THEN SkipDigits(tok, e0) ELSE s2
    IN  [ sign |-> s0, digits |-> s1, fraction |-> s2, exponent |-> s3 ]

\* tok matches -?\d*(\.\d+)?([Ee][+-]?\d+)? from its start to its end
MatchesNumber(tok) == NumberParts(tok).exponent = Len(tok) + 1

\* float(tok) returns, for a tok that matches: it raises ValueError when tok
\* has no digit before its exponent ("-", "e5")
FloatParses(tok) ==
    LET p == NumberParts(tok)
    IN  p.digits > p.sign \/ p.fraction > p.digits

RECURSIVE DigitsValue(_, _)
DigitsValue(tok, k) ==
    IF k = 0 \/ ~IsDigit(tok[k]) THEN 0
    ELSE DigitsValue(tok, k - 1) * 10 + DigitValue(tok[k])

\* float(tok) for a numeral without fraction and exponent, the only
\* numerals of the model's inputs
FloatValue(tok) ==
    IF tok[1] = "-" THEN -DigitsValue(tok, Len(tok)) ELSE DigitsValue(tok, Len(tok))

\* the line matches ^<keyword> N N N$ with N the number pattern.  A
\* normalised line has single spaces and none at its ends, so it matches
\* exactly when its words are the keyword's and three that match N.
MatchesNumbersLine(line, keyword) ==
    LET w == Split(line)
        n == Len(keyword)
    IN  /\ Len(w) = n + 3
        /\ SubSeq(w, 1, n) = keyword
        /\ \A k \in (n + 1)..(n + 3) : MatchesNumber(w[k])

\* list(map(float, line.split()[n:])) returns
NumbersParse(line, n) ==
    \A k \in (n + 1)..Len(Split(line)) : FloatParses(Split(line)[k])

NumbersOf(line, n) ==
    [ k \in 1..(Len(Split(line)) - n) |-> FloatValue(Split(line)[n + k]) ]

-----------------------------------------------------------------------------
(* LINE FUNCTIONS *)

\* whether lines[line_index] exists; get_current_line raises IndexError
\* when it does not
HasLine == line_index < Len(lines)

\* get_current_line()
CurrentLine == lines[line_index + 1]

RECURSIVE SkipEmptyLines(_, _)
\* skip_empty_lines(): the cursor it leaves, started with the cursor at idx
SkipEmptyLines(ls, idx) ==
    IF Len(ls) > idx + 1 /\ ls[idx + 1] = << >>
    THEN SkipEmptyLines(ls, idx + 1)
    ELSE idx

\* go_to_next_line(), with w more warnings raised by the caller: every line
\* skipped is one warning
GoToNextLine(w) ==
    /\ line_index' = SkipEmptyLines(lines, line_index + 1)
    /\ warning_count' =
          warning_count + w + (SkipEmptyLines(lines, line_index + 1) - (line_index + 1))

LineError(expected) ==
    RaiseError([ where |-> "line", at |-> line_index + 1,
                 expected |-> expected, got |-> CurrentLine ])

\* line 373
TotalFacetCountOff(ls) ==
    (Cardinality({ k \in 1..Len(ls) : ls[k] # << >> }) - 1) \div 7

TotalFacetCount(ls) ==
    (Cardinality({ k \in 1..Len(ls) : ls[k] # << >> }) - 2) \div 7

-----------------------------------------------------------------------------
(* clean_stl_file, to the point where a codec starts to read *)

CleanStlFile ==
    /\ pc = "start"
    /\ IF is_binary_stl(input)
       THEN /\ pc' = "bin_read"
            /\ UNCHANGED << lines, line_index, warning_count >>
       ELSE LET loaded == [ k \in 1..Len(input.raw) |-> NormalizeLine(input.raw[k]) ]
            IN  /\ lines' = loaded
                /\ line_index' = SkipEmptyLines(loaded, 0)
                /\ warning_count' = warning_count + SkipEmptyLines(loaded, 0)
                /\ pc' = "ascii_solid"
    /\ min_vertex' = << Infinity, Infinity, Infinity >>
    /\ facets' = << >>
    /\ NoError
    /\ UNCHANGED << input, optionVars, solid_name, endsolid_name,
                    total_facet_count, vertices, outVars, pureVars >>

-----------------------------------------------------------------------------
(* clean_ascii_stl_file: one action for every step of the grammar *)

\* lines 359-379
ReadSolid ==
    /\ pc = "ascii_solid"
    /\ IF ~HasLine
       THEN Uncaught("IndexError")
            /\ UNCHANGED << line_index, warning_count, solid_name, total_facet_count >>
       ELSE IF ~StartsWith(CurrentLine, K_solid)
       THEN LineError("solid")
            /\ UNCHANGED << line_index, warning_count, solid_name, total_facet_count >>
       ELSE LET named == StartsWith(CurrentLine, K_solid \o SP)
                            /\ Len(CurrentLine) >= Len(K_solid) + 2
            IN  /\ solid_name' = IF named THEN LStrip(Slice(CurrentLine, 6)) ELSE << >>
                /\ GoToNextLine(IF named THEN 0 ELSE 1)
                /\ total_facet_count' = TotalFacetCount(lines)
                /\ pc' = IF TotalFacetCount(lines) > 0
                         THEN "ascii_facet" ELSE "ascii_endsolid"
                /\ NoError
    /\ UNCHANGED << input, optionVars, lines, endsolid_name, vertices,
                    min_vertex, facets, outVars, pureVars >>

\* lines 382-385
ReadFacetNormal ==
    /\ pc = "ascii_facet"
    /\ IF ~HasLine
       THEN Uncaught("IndexError") /\ UNCHANGED << line_index, warning_count >>
       ELSE IF ~MatchesNumbersLine(CurrentLine, << K_facet, K_normal >>)
       THEN LineError("facet normal <float> <float> <float>")
            /\ UNCHANGED << line_index, warning_count >>
       ELSE IF ~NumbersParse(CurrentLine, 2)
       THEN Uncaught("ValueError") /\ UNCHANGED << line_index, warning_count >>
       ELSE GoToNextLine(0) /\ pc' = "ascii_outer" /\ NoError
    /\ UNCHANGED << input, optionVars, lines, solid_name, endsolid_name,
                    total_facet_count, vertices, min_vertex, facets, outVars,
                    pureVars >>

\* lines 386-390
ReadOuterLoop ==
    /\ pc = "ascii_outer"
    /\ IF ~HasLine
       THEN Uncaught("IndexError")
            /\ UNCHANGED << line_index, warning_count, vertices >>
       ELSE IF CurrentLine # K_outer_loop
       THEN LineError("outer loop")
            /\ UNCHANGED << line_index, warning_count, vertices >>
       ELSE /\ GoToNextLine(0)
            /\ vertices' = << >>
            /\ pc' = "ascii_vertex"
            /\ NoError
    /\ UNCHANGED << input, optionVars, lines, solid_name, endsolid_name,
                    total_facet_count, min_vertex, facets, outVars, pureVars >>

\* lines 398-410, one iteration of the loop over the three vertices
ReadVertex ==
    /\ pc = "ascii_vertex"
    /\ IF ~HasLine
       THEN Uncaught("IndexError")
            /\ UNCHANGED << line_index, warning_count, vertices, min_vertex >>
       ELSE IF ~MatchesNumbersLine(CurrentLine, << K_vertex >>)
       THEN LineError("vertex <unsigned float> <unsigned float> <unsigned float>")
            /\ UNCHANGED << line_index, warning_count, vertices, min_vertex >>
       ELSE IF ~NumbersParse(CurrentLine, 1)
       THEN Uncaught("ValueError")
            /\ UNCHANGED << line_index, warning_count, vertices, min_vertex >>
       ELSE LET vertex == NumbersOf(CurrentLine, 1)
            IN  /\ GoToNextLine(IF IsNegative(vertex) THEN 1 ELSE 0)
                /\ min_vertex' = [ j \in 1..3 |-> Min(min_vertex[j], vertex[j]) ]
                /\ vertices' = Append(vertices, vertex)
                /\ pc' = IF Len(vertices) = 2 THEN "ascii_endloop" ELSE "ascii_vertex"
                /\ NoError
    /\ UNCHANGED << input, optionVars, lines, solid_name, endsolid_name,
                    total_facet_count, facets, outVars, pureVars >>

\* lines 415-423
ReadEndLoop ==
    /\ pc = "ascii_endloop"
    /\ LET normal == recalculate_normal(vertices[1], vertices[2], vertices[3])
           clockwise == ~is_counterclockwise(vertices[1], vertices[2], vertices[3],
                                             normal)
           w == IF clockwise THEN 1 ELSE 0
       IN  /\ facets' = Append(facets, << normal, vertices[1], vertices[2],
                                          vertices[3] >>)
           /\ IF ~HasLine
              THEN Uncaught("IndexError")
                   /\ line_index' = line_index /\ warning_count' = warning_count + w
              ELSE IF CurrentLine # K_endloop
              THEN LineError("endloop")
                   /\ line_index' = line_index /\ warning_count' = warning_count + w
              ELSE GoToNextLine(w) /\ pc' = "ascii_endfacet" /\ NoError
    /\ UNCHANGED << input, optionVars, lines, solid_name, endsolid_name,
                    total_facet_count, vertices, min_vertex, outVars, pureVars >>

\* lines 424-426, and the test of the loop over the facets
ReadEndFacet ==
    /\ pc = "ascii_endfacet"
    /\ IF ~HasLine
       THEN Uncaught("IndexError") /\ UNCHANGED << line_index, warning_count >>
       ELSE IF CurrentLine # K_endfacet
       THEN LineError("endfacet") /\ UNCHANGED << line_index, warning_count >>
       ELSE /\ GoToNextLine(0)
            /\ pc' = IF Len(facets) < total_facet_count
                     THEN "ascii_facet" ELSE "ascii_endsolid"
            /\ NoError
    /\ UNCHANGED << input, optionVars, lines, solid_name, endsolid_name,
                    total_facet_count, vertices, min_vertex, facets, outVars,
                    pureVars >>


\* lines 433-436: the name captured from the endsolid line
EndsolidNameOf(line) ==
    IF StartsWith(line, K_endsolid \o SP) /\ Len(line) >= Len(K_endsolid) + 2
    THEN LStrip(Slice(line, 6))
    ELSE << >>

\* lines 428-436
ReadEndSolid ==
    /\ pc = "ascii_endsolid"
    /\ IF ~HasLine
       THEN Uncaught("IndexError") /\ UNCHANGED << warning_count, endsolid_name >>
       ELSE IF ~StartsWith(CurrentLine, K_endsolid)
       THEN LineError("endsolid") /\ UNCHANGED << warning_count, endsolid_name >>
       ELSE /\ warning_count' =
                  warning_count
                  + (IF solid_name # << >>
                        /\ CurrentLine # K_endsolid \o SP \o solid_name
                     THEN 1 ELSE 0)
            /\ endsolid_name' = EndsolidNameOf(CurrentLine)
            /\ pc' = "ascii_write"
            /\ NoError
    /\ UNCHANGED << input, optionVars, lines, line_index, solid_name,
                    total_facet_count, vertices, min_vertex, facets, outVars,
                    pureVars >>

\* lines 445-452: the name written to the output
ResolveName(solid, endsolid) ==
    LET n1 == IF ~ignore_endsolid_name /\ solid = << >> THEN endsolid ELSE solid
        n2 == IF ~ignore_endsolid_name /\ solid # << >> /\ endsolid # << >>
                 /\ solid # endsolid
              THEN solid \o K_bar \o endsolid
              ELSE n1
    IN  IF n2 = << >> THEN K_model ELSE n2

\* a line of the output: its indentation, its keyword and what follows it
OutLine(level, key, rest) ==
    [ indent |-> level * indent_spaces, key |-> key, rest |-> rest ]

\* lines 464-478: the seven lines written for one facet
FacetBlock(facet, adapt_vertex) ==
    LET w == WrittenFacet(facet, adapt_vertex)
    IN  << OutLine(1, "facet normal", facet[1]),
           OutLine(2, "outer loop", << >>),
           OutLine(3, "vertex", w[2]),
           OutLine(3, "vertex", w[3]),
           OutLine(3, "vertex", w[4]),
           OutLine(2, "endloop", << >>),
           OutLine(1, "endfacet", << >>) >>

RECURSIVE Flatten(_)
Flatten(ss) == IF ss = << >> THEN << >> ELSE Head(ss) \o Flatten(Tail(ss))

\* lines 453-479: the lines written for the repaired facets
FixedLines(repaired, name, adapt_vertex) ==
    << OutLine(0, "solid", name) >>
    \o Flatten([ k \in 1..Len(repaired) |-> FacetBlock(repaired[k], adapt_vertex) ])
    \o << OutLine(0, "endsolid", name) >>

\* lines 439-481, and the return of clean_stl_file
AsciiWrite ==
    /\ pc = "ascii_write"
    /\ facets' = make_model_manifold(facets)
    /\ GoToNextLine(0)
    /\ out_opened' = TRUE
    /\ out_file' = [ kind |-> "text",
                     lines |-> FixedLines(facets', ResolveName(solid_name, endsolid_name),
                                          AdaptVertex(min_vertex)) ]
    /\ Return
    /\ UNCHANGED << input, optionVars, lines, solid_name, endsolid_name,
                    total_facet_count, vertices, min_vertex, pureVars >>

-----------------------------------------------------------------------------
(* The inputs of a run *)

\* the largest number of lines added after the endsolid line
MaxTrailing == 7

Text(x) ==
    IF x < 0 THEN << "-", Digits[(-x) + 1] >> ELSE << Digits[x + 1] >>

NumbersText(v) == Text(v[1]) \o SP \o Text(v[2]) \o SP \o Text(v[3])

WithName(keyword, name) ==
    IF name = << >> THEN keyword ELSE keyword \o SP \o name

\* the seven lines of a facet, indented as exporters write them
FacetText(t) ==
    << SP \o K_facet \o SP \o K_normal \o SP \o NumbersText(<< 0, 0, 1 >>),
       SP \o SP \o K_outer_loop,
       SP \o SP \o SP \o K_vertex \o SP \o NumbersText(t[1]),
       SP \o SP \o SP \o K_vertex \o SP \o NumbersText(t[2]),
       SP \o SP \o SP \o K_vertex \o SP \o NumbersText(t[3]),
       SP \o SP \o K_endloop,
       SP \o K_endfacet >>

\* a well-formed file
FileText(solid, endsolid, ts) ==
    << WithName(K_solid, solid) >>
    \o Flatten([ k \in 1..Len(ts) |-> FacetText(ts[k]) ])
    \o << WithName(K_endsolid, endsolid) >>

SolidNames == { << >>, << "a" >> }
EndsolidNames == { << >>, << "a" >>, << "b" >> }
TriangleLists ==
    ListsUpTo(MaxFacets, Points \X Points \X Points, FurtherTriangles)

\* the well-formed files
PlainTexts ==
    { FileText(s, e, ts) : s \in SolidNames, e \in EndsolidNames, ts \in TriangleLists }

\* the lines put in the place of a line of a well-formed file
OddLines ==
    { << >>, << "x" >>,
      K_vertex \o SP \o << "-" >> \o SP \o << "0" >> \o SP \o << "0" >>,
      K_facet \o SP \o K_normal \o SP \o << "-" >> \o SP \o << "0" >> \o SP \o << "1" >>,
      K_vertex \o SP \o NumbersText(<< 2, 2, -1 >>),
      K_solid, K_endsolid, K_outer_loop, K_endloop, K_endfacet }

\* the files with one fixed triangle per facet that the damaged files are
\* made from
BaseTexts ==
    { FileText(s, e, [ k \in 1..n |-> << << -1, 1, 2 >>, << 2, 0, 0 >>, << 0, 2, 0 >> >> ]) :
        s \in SolidNames, e \in EndsolidNames, n \in 0..MaxFacets }

\* the damaged files: a line replaced, an empty line put in, the file cut
\* short, lines added at its end
DamagedTexts ==
    UNION { { [ f EXCEPT ![p] = l ] : p \in 1..Len(f), l \in OddLines }
            \cup { SubSeq(f, 1, p - 1) \o << << >> >> \o SubSeq(f, p, Len(f)) :
                     p \in 1..(Len(f) + 1) }
            \cup { SubSeq(f, 1, p - 1) : p \in 1..Len(f) }
            \cup { f \o [ k \in 1..n |-> << "x" >> ] : n \in 1..MaxTrailing }
            : f \in BaseTexts }

TextFiles == { [ kind |-> "text", raw |-> f ] : f \in PlainTexts \cup DamagedTexts }

\* the options of a run: a positive threshold alone, with --force-repos,
\* with --ignore-endsolid-name, and --min-pos=0,0,0
OptionSets ==
    { [ force |-> FALSE, ignore |-> FALSE, min_pos |-> << 1, 1, 1 >> ],
      [ force |-> TRUE, ignore |-> FALSE, min_pos |-> << 1, 1, 1 >> ],
      [ force |-> FALSE, ignore |-> TRUE, min_pos |-> << 1, 1, 1 >> ],
      [ force |-> FALSE, ignore |-> FALSE, min_pos |-> << 0, 0, 0 >> ] }

Init ==
    /\ pc = "start"
    /\ \/ input \in BinaryFiles
       \/ input \in TextFiles
    /\ \E o \in OptionSets :
          /\ force_repositioning = o.force
          /\ ignore_endsolid_name = o.ignore
          /\ new_min_pos = o.min_pos
    /\ NoRun
    /\ arg = << >>
    /\ res = << >>

Next ==
    \/ CleanStlFile
    \/ BinReadTriangle
    \/ BinWrite
    \/ ReadSolid
    \/ ReadFacetNormal
    \/ ReadOuterLoop
    \/ ReadVertex
    \/ ReadEndLoop
    \/ ReadEndFacet
    \/ ReadEndSolid
    \/ AsciiWrite

Spec == Init /\ [][Next]_vars

-----------------------------------------------------------------------------
(* Claims about a run of clean_stl_file *)

Succeeded == pc = "returned" /\ exit_code = SUCCESS_CODE

\* the facets of the output file, as <<normal, vertex1, vertex2, vertex3>>,
\* in the order in which they were written
OutFacets ==
    IF out_file.kind = "binary"
    THEN [ k \in 1..Len(out_file.triangles) |->
             << out_file.triangles[k].normal, out_file.triangles[k].vertex1,
                out_file.triangles[k].vertex2, out_file.triangles[k].vertex3 >> ]
    ELSE LET starts == { k \in 1..Len(out_file.lines) :
                           out_file.lines[k].key = "facet normal" }
         IN  Pick([ k \in 1..Len(out_file.lines) |->
                      IF k \in starts
                      THEN << out_file.lines[k].rest, out_file.lines[k + 2].rest,
                              out_file.lines[k + 3].rest, out_file.lines[k + 4].rest >>
                      ELSE << >> ], starts)

\* C1: after a successful clean, on every axis every vertex written to the
\* output (hence the minimum over them) is at or above new_min_pos.
C1_OutputAboveThreshold ==
    Succeeded =>
        \A k \in 1..Len(OutFacets) : \A j \in 2..4 : \A i \in 1..3 :
            OutFacets[k][j][i] >= new_min_pos[i]

\* the index of the first triangle of a binary input whose attribute byte
\* count is not zero
FirstBadTriangle ==
    CHOOSE i \in 0..(input.triangle_count - 1) :
        /\ input.triangles[i + 1].attr_byte_count # 0
        /\ \A m \in 0..(i - 1) : input.triangles[m + 1].attr_byte_count = 0

\* C2: the fatal error for a non-zero attribute byte count c on triangle i,
\* the first such triangle, is raised at byte offset 84 + i * 50 and reads
\* "Attribute byte count should be '0', but got '<c>'".
C2_AttributeErrorOffset ==
    (raised = "STLCleanerException" /\ input.kind = "binary") =>
        /\ error_message.at = 84 + FirstBadTriangle * 50
        /\ error_message.expected = "Attribute byte count should be '0', but got"
        /\ error_message.got = input.triangles[FirstBadTriangle + 1].attr_byte_count

\* the line on which the reader found endsolid, in a run that has written:
\* the last line before the cursor that is not empty
EndsolidLineRead ==
    lines[CHOOSE k \in 1..line_index :
            lines[k] # << >> /\ \A m \in (k + 1)..line_index : lines[m] = << >>]

\* the trailing name of an endsolid line: what follows "endsolid "
TrailingName(line) ==
    IF StartsWith(line, K_endsolid \o SP) THEN Slice(line, Len(K_endsolid) + 1)
    ELSE << >>

\* the names C4 allows for solid name S and endsolid name E.  With the
\* option set and S empty the claim can be read either way (E, or "model"
\* because only S counts); both readings are allowed here.
NamesClaimed(S, E) ==
    LET OrModel(n) == IF n = << >> THEN K_model ELSE n
    IN  IF ignore_endsolid_name /\ S # << >> THEN { S }
        ELSE IF ignore_endsolid_name THEN { OrModel(E), K_model }
        ELSE IF S = << >> THEN { OrModel(E) }
        ELSE IF E # << >> /\ S # E THEN { S \o K_bar \o E }
        ELSE { S }

\* C4: the name on the solid and the endsolid line of the output is the one
\* resolved from S, the name of the input's solid line, and E, the trailing
\* name of its endsolid line: S | E when they differ, S when they are equal,
\* E when S is empty, S alone under --ignore-endsolid-name, "model" if empty.
C4_NameResolution ==
    (Succeeded /\ input.kind = "text") =>
        /\ out_file.lines[1].rest
              \in NamesClaimed(solid_name, TrailingName(EndsolidLineRead))
        /\ out_file.lines[Len(out_file.lines)].rest = out_file.lines[1].rest

\* the well-formed text files with exactly one facet, whose vertices are not
\* on one line
OneFacetTexts ==
    { FileText(s, e, << t >>) :
        s \in SolidNames, e \in EndsolidNames,
        t \in { u \in Points \X Points \X Points :
                  recalculate_normal(u[1], u[2], u[3]) # << 0, 0, 0 >> } }

\* C5: the output for a well-formed ASCII input with exactly one
\* non-degenerate facet has exactly one facet block.
C5_OneFacetBlock ==
    (Succeeded /\ input.kind = "text" /\ input.raw \in OneFacetTexts) =>
        /\ Cardinality({ k \in 1..Len(out_file.lines) :
                           out_file.lines[k].key = "facet normal" }) = 1
        /\ Cardinality({ k \in 1..Len(out_file.lines) :
                           out_file.lines[k].key = "endfacet" }) = 1

\* C6: when a fatal error is raised while a binary or an ASCII input is
\* read, reading stops there (the cursor stays on the line of the error,
\* the triangle of the error is the last one read), the output file is
\* never opened or written, and clean_stl_file returns ERROR_CODE.
C6_FatalErrorNoOutput ==
    raised = "STLCleanerException" =>
        /\ pc = "returned"
        /\ exit_code = ERROR_CODE
        /\ ~out_opened
        /\ out_file = << >>
        /\ input.kind = "text" => error_message.at = line_index + 1
        /\ input.kind = "binary" => Len(facets) = FirstBadTriangle + 1

\* a fatal error in the middle of an ASCII file
C6_Witness ==
    /\ raised = "STLCleanerException"
    /\ input.kind = "text"
    /\ line_index > 0
    /\ exit_code = ERROR_CODE

\* C9: an ASCII conversion runs to completion or raises the fatal
\* validation error: no other exception ends it, the cursor is never read
\* past the last line.
C9_CompletesOrFatalError ==
    input.kind = "text" => pc # "crashed"

\* C10: every facet written, read or synthesized, is wound consistently
\* with the normal written for it: dot(cross(v2 - v1, v3 - v1), normal) >= 0.
C10_WrittenWinding ==
    out_opened =>
        \A k \in 1..Len(OutFacets) :
            dot_product(cross_product(Sub(OutFacets[k][3], OutFacets[k][2]),
                                      Sub(OutFacets[k][4], OutFacets[k][2])),
                        OutFacets[k][1]) >= 0

\* an output with more facets than the input had, written by a run that
\* raised warnings
C10_Witness ==
    /\ Succeeded
    /\ warning_count > 0
    /\ Len(OutFacets) > 1
    /\ \E k \in 1..Len(OutFacets) : OutFacets[k][1] # << 0, 0, 0 >>

\* C11: after a successful clean of a binary input, the count field of the
\* output file is the number of 50-byte records written after it, so that
\* the output passes the sniff 80 + 4 + 50 * count = size of is_binary_stl.
C11_OutputCountField ==
    (Succeeded /\ input.kind = "binary") =>
        /\ out_file.triangle_count = Len(out_file.triangles)
        /\ is_binary_stl(out_file)

-----------------------------------------------------------------------------
(* C8: the order in which the ASCII reader walks the lines *)

\* the lines of the input that are not empty, in order
NonBlank(ls) == Pick(ls, { k \in 1..Len(ls) : ls[k] # << >> })

\* floor((n - 2) / 7) for n the number of non-empty lines
FacetsExpected == (Len(NonBlank(lines)) - 2) \div 7

\* the facet records the grammar holds: that many, and none when there are
\* fewer than two lines
RecordsExpected == IF FacetsExpected < 0 THEN 0 ELSE FacetsExpected

\* what the grammar has at place j of the non-empty lines when it holds f
\* facet records: the solid line, f records of seven lines, the endsolid line
Expected(j, f) ==
    IF j = 1 THEN "solid"
    ELSE IF j = 2 + 7 * f THEN "endsolid"
    ELSE IF j > 2 + 7 * f THEN "nothing"
    ELSE << "facet normal", "outer loop", "vertex", "vertex", "vertex",
            "endloop", "endfacet" >>[((j - 2) % 7) + 1]

\* the line is of the kind, as the claim names the kinds
IsKind(kind, line) ==
    CASE kind = "solid" -> StartsWith(line, K_solid)
      [] kind = "facet normal" -> StartsWith(line, K_facet \o SP \o K_normal)
      [] kind = "outer loop" -> line = K_outer_loop
      [] kind = "vertex" -> StartsWith(line, K_vertex)
      [] kind = "endloop" -> line = K_endloop
      [] kind = "endfacet" -> line = K_endfacet
      [] kind = "endsolid" -> StartsWith(line, K_endsolid)
      [] OTHER -> FALSE

\* the line passes the test the reader makes of a line of the kind; after
\* the endsolid line the reader tests nothing
PassesTest(kind, line) ==
    CASE kind = "facet normal" -> MatchesNumbersLine(line, << K_facet, K_normal >>)
      [] kind = "vertex" -> MatchesNumbersLine(line, << K_vertex >>)
      [] kind = "nothing" -> TRUE
      [] OTHER -> IsKind(kind, line)

\* the non-empty lines before the cursor: the lines the reader has passed
LinesPassed == NonBlank(SubSeq(lines, 1, Min(line_index, Len(lines))))

\* C8: the reader walks the grammar in order.  Every line it has passed is of
\* the kind the grammar has at its place, for floor((n - 2) / 7) facet
\* records; it reaches the write phase only with the cursor on the endsolid
\* line that follows exactly that many records; and a fatal error is raised
\* at the first line that fails the test made at its place.
C8_GrammarWalk ==
    (input.kind = "text" /\ pc # "start") =>
        LET passed == LinesPassed
            f == FacetsExpected
            records == RecordsExpected
        IN  /\ \A j \in 1..Len(passed) : IsKind(Expected(j, records), passed[j])
            /\ pc = "ascii_write" =>
                  /\ f >= 0
                  /\ Len(passed) = 1 + 7 * f
                  /\ Len(facets) = f
                  /\ HasLine
                  /\ IsKind("endsolid", CurrentLine)
            /\ raised = "STLCleanerException" =>
                  /\ HasLine
                  /\ error_message.at = line_index + 1
                  /\ ~PassesTest(Expected(Len(passed) + 1, records), CurrentLine)

\* the write phase reached for a file with a facet record and with lines
\* after the endsolid line, which are never read
C8_Witness ==
    /\ pc = "ascii_write"
    /\ FacetsExpected = 1
    /\ Len(facets) = 1
    /\ Len(NonBlank(lines)) > 2 + 7 * FacetsExpected

====
